---- MODULE Spec2Model ----
(***************************************************************************)
(* Model of asgotypes.GoPrimitive (src/asgotypes/primitive.go): the        *)
(* decoder FromTerraform5Value (tftypes.Value -> interface{}) and the      *)
(* encoder ToTerraform5Value / marshal (interface{} + tftypes.Type ->      *)
(* tftypes.Value).                                                         *)
(*                                                                         *)
(* A Go run-time type is a sequence of reflect kind names, outermost       *)
(* first: <<"slice","string">> is []string, <<"map","interface">> is       *)
(* map[string]interface{}, <<"ptr">> is *big.Float, and <<>> is the nil    *)
(* reflect.Type that reflect.TypeOf(nil) returns.                          *)
(*                                                                         *)
(* A call ends in one of three ways: "ok" (nil error), "error" (a non-nil  *)
(* error is returned) or "panic" (the goroutine panics, nothing is         *)
(* returned).  Go's map iteration order is unspecified, so a call on a     *)
(* value holding maps has a SET of possible outcomes.                      *)
(***************************************************************************)
EXTENDS Integers, Sequences, FiniteSets, TLC

VARIABLES dt, pc, call, ret

vars == <<dt, pc, call, ret>>

(* ------------------------------ bounds --------------------------------- *)

\* Largest number of nodes of a typed value handed to the decoder.
MaxNodes == 3

\* The attribute names / map keys in use, in sorted order.
Keys == <<"a", "b">>

(* --------------------------- tftypes.Type ------------------------------ *)

NilType == [kind |-> "nil", sub |-> <<>>]

PrimT(k) == [kind |-> k, sub |-> <<>>]

String == PrimT("String")

Number == PrimT("Number")

Bool == PrimT("Bool")

ListT(t) == [kind |-> "List", sub |-> <<t>>]

SetT(t) == [kind |-> "Set", sub |-> <<t>>]

MapT(t) == [kind |-> "Map", sub |-> <<t>>]

TupleT(ts) == [kind |-> "Tuple", sub |-> ts]

\* attrs: a sequence of [key, typ] sorted by key (tftypes.Object.AttributeTypes)
ObjectT(attrs) == [kind |-> "Object", sub |-> attrs]

Attr(k, t) == [key |-> k, typ |-> t]

\* p.AttributeTypes[name]: a Go map lookup, the nil Type when name is absent
AttributeType(p, name) ==
  IF \E j \in DOMAIN p.sub : p.sub[j].key = name
  THEN (CHOOSE a \in {p.sub[j] : j \in DOMAIN p.sub} : a.key = name).typ
  ELSE NilType

(* --------------------------- interface{} ------------------------------- *)

\* gt: run-time type; s: scalar payload; e: slice elements, or map entries
\* [key, val] sorted by key
NilDyn == [gt |-> <<>>, s |-> "", e |-> <<>>]

StrDyn(x) == [gt |-> <<"string">>, s |-> x, e |-> <<>>]

NumDyn(x) == [gt |-> <<"ptr">>, s |-> x, e |-> <<>>]

BoolDyn(x) == [gt |-> <<"bool">>, s |-> x, e |-> <<>>]

SliceDyn(et, es) == [gt |-> <<"slice">> \o et, s |-> "", e |-> es]

MapDyn(et, es) == [gt |-> <<"map">> \o et, s |-> "", e |-> es]

Entry(k, v) == [key |-> k, val |-> v]

IfaceT == <<"interface">>

\* reflect.TypeOf(i)
TypeOf(i) == i.gt

\* reflect.ValueOf(i).Kind().String()
KindOf(i) == IF i.gt = <<>> THEN "invalid" ELSE Head(i.gt)

\* val.MapIndex(e).Kind().String(): the kind of the map's static element type
MapIndexKind(i) == i.gt[2]

(* --------------------------- tftypes.Value ----------------------------- *)

\* st: "known" | "null" | "unknown"; sc: the Go payload of a scalar;
\* el: the elements ([]tftypes.Value) or entries (map[string]tftypes.Value,
\* as [key, val] sorted by key) of a composite
ZeroValue == [typ |-> NilType, st |-> "null", sc |-> NilDyn, el |-> <<>>]

Unknown(t) == [typ |-> t, st |-> "unknown", sc |-> NilDyn, el |-> <<>>]

Null(t) == [typ |-> t, st |-> "null", sc |-> NilDyn, el |-> <<>>]

\* tftypes.NewValue(t, val) as the encoder uses it: nil makes a Null value,
\* anything else is stored as given
NewValue(t, i) ==
  IF i = NilDyn THEN Null(t)
  ELSE [typ |-> t, st |-> "known", sc |-> i, el |-> <<>>]

\* tftypes.NewValue(t, vals) for a composite: vals is never nil there
NewComposite(t, vals) == [typ |-> t, st |-> "known", sc |-> NilDyn, el |-> vals]

(* ------------------------------ decoder -------------------------------- *)

\* The ways a call can end: st is "ok", "error" or "panic"; msg is the text
\* of the error (or of the panic), in pieces; val is the Go value produced
DecOk(x) == [st |-> "ok", msg |-> <<>>, val |-> x]

DecErr(m) == [st |-> "error", msg |-> m, val |-> NilDyn]

DecPanic(m) == [st |-> "panic", msg |-> m, val |-> NilDyn]

Failures(O) == {o \in O : o.st # "ok"}

Successes(O) == {o.val : o \in {x \in O : x.st = "ok"}}

\* every way of taking one member from each set of a sequence of sets
RECURSIVE Prod(_)
Prod(ss) ==
  IF ss = <<>> THEN {<<>>}
  ELSE {<<x>> \o r : x \in Head(ss), r \in Prod(Tail(ss))}

\* A loop over a slice that returns at the first element whose call fails:
\* element j is reached when every earlier element can succeed
InOrderFailures(O) ==
  UNION {Failures(O[j]) :
           j \in {h \in DOMAIN O : \A g \in 1..(h - 1) : Successes(O[g]) # {}}}

\* A loop over a Go map that returns at the first entry whose call fails:
\* any entry may be the first one visited
AnyOrderFailures(O) == UNION {Failures(O[j]) : j \in DOMAIN O}

AllSucceed(O) == Prod([j \in DOMAIN O |-> Successes(O[j])])

\* value.As(&str), value.As(&num), value.As(&b): the payload, copied
ScalarAs(value, gotype) ==
  IF TypeOf(value.sc) = gotype THEN DecOk(value.sc)
  ELSE DecErr(<<"can't unmarshal", value.typ.kind>>)

\* the slip `dt.Value = nil` for an empty List or Set
EmptySliceNil == NilDyn

\* lines 116-119: `var tmp []interface{}`, stored in dt.Value as it is: a
\* []interface{} of length 0, which is not the nil interface
EmptySlice == SliceDyn(IfaceT, <<>>)

\* lines 143-146: `tmp := map[string]interface{}{}`
EmptyMap == MapDyn(IfaceT, <<>>)

\* lines 129-135: a slice of the first element's type, filled by
\* reflect.Append
ReflectSlice(tmp) ==
  LET typ == TypeOf(tmp[1])
      bad == {j \in DOMAIN tmp : TypeOf(tmp[j]) # typ}
  IN  IF typ = <<>> THEN DecPanic(<<"reflect.SliceOf", "nil Type">>)
      ELSE IF bad = {} THEN DecOk(SliceDyn(typ, tmp))
      ELSE LET j == CHOOSE h \in bad : \A g \in bad : h <= g
           IN  IF TypeOf(tmp[j]) = <<>>
               THEN DecPanic(<<"reflect.Append", "zero Value">>)
               ELSE DecPanic(<<"reflect.Append", "not assignable">>)

\* lines 148-165: typ is the type of the first entry visited whose value is
\* not nil (entry `first` here); SetMapIndex with the zero reflect.Value
\* that reflect.ValueOf(nil) returns deletes the key
ReflectMap(tmp, first) ==
  LET typ == TypeOf(tmp[first].val)
      kept == SelectSeq(tmp, LAMBDA en : TypeOf(en.val) # <<>>)
  IN  IF \E j \in DOMAIN kept : TypeOf(kept[j].val) # typ
      THEN DecPanic(<<"reflect.SetMapIndex", "not assignable">>)
      ELSE DecOk(MapDyn(typ, kept))

\* the slip of taking typ from the first entry visited, nil or not
ReflectMapFirstVisited(tmp) ==
  {IF TypeOf(tmp[first].val) = <<>> THEN DecPanic(<<"reflect.MapOf", "nil Type">>)
   ELSE ReflectMap(tmp, first) : first \in DOMAIN tmp}

\* any entry whose value is not nil may be the first such entry visited;
\* with none, typ stays nil
ReflectMapAnyOrder(tmp) ==
  LET nonNil == {j \in DOMAIN tmp : TypeOf(tmp[j].val) # <<>>}
  IN  IF nonNil = {} THEN {DecPanic(<<"reflect.MapOf", "nil Type">>)}
      ELSE {ReflectMap(tmp, first) : first \in nonNil}

\* The outcomes of FromTerraform5Value(value) on a receiver, with the
\* dt.Value an "ok" outcome leaves (lines 41-169)
RECURSIVE Decode(_)
Decode(value) ==
  IF value.st = "unknown"
  THEN {DecErr(<<"cannot decode unknown values to Go types">>)}
  ELSE IF value.st = "null" THEN {DecOk(NilDyn)}
  ELSE
    LET kind == value.typ.kind
        nested == [j \in DOMAIN value.el |->
                     Decode(IF kind \in {"Object", "Map"}
                            THEN value.el[j].val ELSE value.el[j])]
        entries(vs) == [j \in DOMAIN vs |-> Entry(value.el[j].key, vs[j])]
    IN  CASE kind = "String" -> {ScalarAs(value, <<"string">>)}
          [] kind = "Number" -> {ScalarAs(value, <<"ptr">>)}
          [] kind = "Bool" -> {ScalarAs(value, <<"bool">>)}
          [] kind = "Object" ->
               AnyOrderFailures(nested)
               \cup {DecOk(MapDyn(IfaceT, entries(vs))) : vs \in AllSucceed(nested)}
          [] kind = "Tuple" ->
               InOrderFailures(nested)
               \cup {DecOk(SliceDyn(IfaceT, vs)) : vs \in AllSucceed(nested)}
          [] kind \in {"List", "Set"} ->
               IF Len(value.el) < 1 THEN {DecOk(EmptySlice)}
               ELSE InOrderFailures(nested)
                    \cup {ReflectSlice(vs) : vs \in AllSucceed(nested)}
          [] kind = "Map" ->
               IF Len(value.el) < 1 THEN {DecOk(EmptyMap)}
               ELSE AnyOrderFailures(nested)
                    \cup UNION {ReflectMapAnyOrder(entries(vs)) :
                                  vs \in AllSucceed(nested)}
          [] OTHER -> {DecErr(<<"unknown type">>)}

\* The receiver after the call: dt.Type is assigned on line 50, before the
\* switch, and dt.Value only where a case succeeds
Receiver(old, value, o) ==
  IF value.st = "unknown" THEN old
  ELSE IF value.st = "null" THEN [Type |-> NilType, Value |-> NilDyn]
  ELSE [Type |-> value.typ, Value |-> IF o.st = "ok" THEN o.val ELSE old.Value]

(* ------------------------------ encoder -------------------------------- *)

\* val is the tftypes.Value returned; at is the place of the failing nested
\* call, as the tuple positions, element positions and attribute names
\* leading to it (<<>> when the call itself fails): it is not part of the Go
\* error, it records what the error is about
EncOk(v) == [st |-> "ok", msg |-> <<>>, val |-> v, at |-> <<>>]

EncErr(m) == [st |-> "error", msg |-> m, val |-> ZeroValue, at |-> <<>>]

EncPanic(m) == [st |-> "panic", msg |-> m, val |-> ZeroValue, at |-> <<>>]

\* position j of a slice as Go counts it
Position(j) == ToString(j - 1)

\* `return tftypes.Value{}, err`: the nested outcome as it is
Propagate(o, step) == [o EXCEPT !.at = <<step>> \o o.at]

\* `return tftypes.Value{}, fmt.Errorf("cannot marshal kind of %s", ...)`:
\* the nested error is dropped; a nested panic unwinds through
Rewrap(o, step, kind) ==
  IF o.st = "error"
  THEN [st |-> "error", msg |-> <<"cannot marshal kind of", kind>>,
        val |-> ZeroValue, at |-> <<step>> \o o.at]
  ELSE Propagate(o, step)

RECURSIVE marshal(_, _)

\* lines 229-248
marshalTuple(i, p) ==
  IF KindOf(i) # "slice" THEN {EncErr(<<"cannot marshal kind of", KindOf(i)>>)}
  ELSE
    LET n == Len(p.sub)
        m == Len(i.e)
        have == IF m < n THEN m ELSE n
        O == [j \in 1..have |-> marshal(i.e[j], p.sub[j])]
        reached(j) == \A g \in 1..(j - 1) : Successes(O[g]) # {}
    IN  UNION {{Propagate(o, Position(j)) : o \in Failures(O[j])} :
                 j \in {h \in 1..have : reached(h)}}
        \cup (IF m < n
              THEN IF reached(m + 1)
                   THEN {EncPanic(<<"reflect: slice index out of range">>)}
                   ELSE {}
              ELSE {EncOk(NewComposite(TupleT(p.sub), vs)) : vs \in AllSucceed(O)})

\* lines 276-295 and 297-316: marshalList and marshalSet differ in the type
\* of the result only
marshalElements(i, p) ==
  IF KindOf(i) # "slice" THEN {EncErr(<<"cannot marshal kind of", KindOf(i)>>)}
  ELSE
    LET O == [j \in DOMAIN i.e |-> marshal(i.e[j], p.sub[1])]
        reached(j) == \A g \in 1..(j - 1) : Successes(O[g]) # {}
    IN  UNION {{Propagate(o, Position(j)) : o \in Failures(O[j])} :
                 j \in {h \in DOMAIN O : reached(h)}}
        \cup {EncOk(NewComposite(p, vs)) : vs \in AllSucceed(O)}

marshalList(i, p) == marshalElements(i, ListT(p.sub[1]))

marshalSet(i, p) == marshalElements(i, SetT(p.sub[1]))

\* the loop over val.MapKeys() of marshalObject and marshalMap: types[j] is
\* the descriptor entry j is encoded against
marshalEntries(i, types, result) ==
  IF KindOf(i) # "map" THEN {EncErr(<<"cannot marshal kind of", KindOf(i)>>)}
  ELSE
    LET O == [j \in DOMAIN i.e |-> marshal(i.e[j].val, types[j])]
    IN  UNION {{Rewrap(o, i.e[j].key, MapIndexKind(i)) : o \in Failures(O[j])} :
                 j \in DOMAIN O}
        \cup {EncOk(NewComposite(result,
                                 [j \in DOMAIN vs |-> Entry(i.e[j].key, vs[j])])) :
                vs \in AllSucceed(O)}

\* lines 203-227: each entry of the input is encoded against
\* p.AttributeTypes[its key]
marshalObject(i, p) ==
  marshalEntries(i, [j \in DOMAIN i.e |-> AttributeType(p, i.e[j].key)],
                 ObjectT(p.sub))

\* lines 250-274
marshalMap(i, p) ==
  marshalEntries(i, [j \in DOMAIN i.e |-> p.sub[1]], MapT(p.sub[1]))

\* lines 181-201; p.Is on the nil Type is a nil pointer dereference
marshal(i, p) ==
  CASE p = NilType -> {EncPanic(<<"nil pointer dereference">>)}
    [] p.kind = "String" -> {EncOk(NewValue(String, i))}
    [] p.kind = "Number" -> {EncOk(NewValue(Number, i))}
    [] p.kind = "Bool" -> {EncOk(NewValue(Bool, i))}
    [] p.kind = "Tuple" -> marshalTuple(i, p)
    [] p.kind = "List" -> marshalList(i, p)
    [] p.kind = "Set" -> marshalSet(i, p)
    [] p.kind = "Map" -> marshalMap(i, p)
    [] p.kind = "Object" -> marshalObject(i, p)
    [] OTHER -> {EncErr(<<"unable to determine type">>)}

\* lines 173-179
Encode(d) ==
  IF d.Value = NilDyn
  THEN {EncErr(<<"cannot decode unknown values to Go types">>)}
  ELSE marshal(d.Value, d.Type)

(* ------------------------------- inputs -------------------------------- *)

Range(f) == {f[j] : j \in DOMAIN f}

\* the sorted sequences of distinct keys
AllKeySeqs ==
  {ks \in UNION {[1..n -> Range(Keys)] : n \in 0..Len(Keys)} :
     \A g, h \in DOMAIN ks : g < h =>
       \E x, y \in DOMAIN Keys : x < y /\ Keys[x] = ks[g] /\ Keys[y] = ks[h]}

\* each sequence of xss with each way of keying its members
Keyed(xss) == {kx \in AllKeySeqs \X xss : Len(kx[1]) = Len(kx[2])}

Zip(ks, xs) == [j \in DOMAIN xs |-> Entry(ks[j], xs[j])]

ZipAttrs(ks, ts) == [j \in DOMAIN ts |-> Attr(ks[j], ts[j])]

\* the descriptors of n nodes, and the non-empty sequences of descriptors of
\* m nodes in all
RECURSIVE TypesOfSize(_), TypeSeqs(_)
TypesOfSize(n) ==
  IF n = 1 THEN {String, Number, Bool, TupleT(<<>>), ObjectT(<<>>)}
  ELSE LET elem == TypesOfSize(n - 1)
           seqs == TypeSeqs(n - 1)
       IN  {ListT(t) : t \in elem}
           \cup {SetT(t) : t \in elem}
           \cup {MapT(t) : t \in elem}
           \cup {TupleT(ts) : ts \in seqs}
           \cup {ObjectT(ZipAttrs(kt[1], kt[2])) : kt \in Keyed(seqs)}

TypeSeqs(m) ==
  IF m < 1 THEN {}
  ELSE {<<t>> : t \in TypesOfSize(m)}
       \cup UNION {{<<t>> \o r : t \in TypesOfSize(h), r \in TypeSeqs(m - h)} :
                     h \in 1..(m - 1)}

Payloads(t) ==
  CASE t = String -> {StrDyn("x"), StrDyn("y")}
    [] t = Number -> {NumDyn("1")}
    [] t = Bool -> {BoolDyn("true")}

SameType(vs) == \A j \in DOMAIN vs : vs[j].typ = vs[1].typ

TypesIn(vs) == [j \in DOMAIN vs |-> vs[j].typ]

\* the well-typed tftypes.Values of n nodes (a Null, an Unknown and an empty
\* collection count the nodes of their descriptor), kind by kind, and the
\* non-empty sequences of values of m nodes in all
RECURSIVE ValueParts(_), ValuesOfSize(_), ValueSeqs(_)
ValueParts(n) ==
  LET types == TypesOfSize(n)
      nulls == <<{Null(t) : t \in types}, {Unknown(t) : t \in types}>>
  IN  IF n = 1
      THEN nulls
           \o <<UNION {{NewValue(t, x) : x \in Payloads(t)} :
                         t \in {String, Number, Bool}},
                {NewComposite(TupleT(<<>>), <<>>), NewComposite(ObjectT(<<>>), <<>>)}>>
      ELSE LET elem == TypesOfSize(n - 1)
               seqs == ValueSeqs(n - 1)
               uniform == {vs \in seqs : SameType(vs)}
           IN  nulls
               \o <<{NewComposite(ListT(t), <<>>) : t \in elem},
                    {NewComposite(SetT(t), <<>>) : t \in elem},
                    {NewComposite(MapT(t), <<>>) : t \in elem},
                    {NewComposite(TupleT(TypesIn(vs)), vs) : vs \in seqs},
                    {NewComposite(ListT(vs[1].typ), vs) : vs \in uniform},
                    {NewComposite(SetT(vs[1].typ), vs) : vs \in uniform},
                    {NewComposite(ObjectT(ZipAttrs(kv[1], TypesIn(kv[2]))),
                                  Zip(kv[1], kv[2])) : kv \in Keyed(seqs)},
                    {NewComposite(MapT(kv[2][1].typ), Zip(kv[1], kv[2])) :
                       kv \in Keyed(uniform)}>>

ValuesOfSize(n) == UNION Range(ValueParts(n))

ValueSeqs(m) ==
  IF m < 1 THEN {}
  ELSE {<<v>> : v \in ValuesOfSize(m)}
       \cup UNION {{<<v>> \o r : v \in ValuesOfSize(h), r \in ValueSeqs(m - h)} :
                     h \in 1..(m - 1)}

\* the Go values of n nodes a caller can build without reflection: nil,
\* scalars, []interface{} and map[string]interface{}
RECURSIVE DynOfSize(_), DynSeqs(_)
DynOfSize(n) ==
  IF n = 1
  THEN {NilDyn, StrDyn("x"), NumDyn("1"), BoolDyn("true"),
        SliceDyn(IfaceT, <<>>), MapDyn(IfaceT, <<>>)}
  ELSE LET seqs == DynSeqs(n - 1)
       IN  {SliceDyn(IfaceT, xs) : xs \in seqs}
           \cup {MapDyn(IfaceT, Zip(kx[1], kx[2])) : kx \in Keyed(seqs)}

DynSeqs(m) ==
  IF m < 1 THEN {}
  ELSE {<<x>> : x \in DynOfSize(m)}
       \cup UNION {{<<x>> \o r : x \in DynOfSize(h), r \in DynSeqs(m - h)} :
                     h \in 1..(m - 1)}

(* The worked cases of the documentation, larger than MaxNodes *)

\* Object{name: String, age: Number} holding {"name": "alice", "age": 30}
PersonType == ObjectT(<<Attr("age", Number), Attr("name", String)>>)

Person ==
  NewComposite(PersonType,
               <<Entry("age", NewValue(Number, NumDyn("30"))),
                 Entry("name", NewValue(String, StrDyn("alice")))>>)

\* Tuple[String, Object{x: Number}] against ["ok", {"x": "not-a-number"}]
PairType == TupleT(<<String, ObjectT(<<Attr("x", Number)>>)>>)

PairInput ==
  SliceDyn(IfaceT, <<StrDyn("ok"),
                     MapDyn(IfaceT, <<Entry("x", StrDyn("not-a-number"))>>)>>)

\* Object{a: String, b: Number} against {"a": "x"}
TwoAttrType == ObjectT(<<Attr("a", String), Attr("b", Number)>>)

OneAttrInput == MapDyn(IfaceT, <<Entry("a", StrDyn("x"))>>)

\* Tuple[String, List[String]] against ["ok", "x"]: a nested call that fails
NestedListType == TupleT(<<String, ListT(String)>>)

NestedListInput == SliceDyn(IfaceT, <<StrDyn("ok"), StrDyn("x")>>)

\* a List[String] holding one Null, followed in a Tuple by an Unknown
NullThenUnknown ==
  NewComposite(TupleT(<<ListT(String), String>>),
               <<NewComposite(ListT(String), <<Null(String)>>), Unknown(String)>>)

\* an empty List[String] followed by a non-empty one, in a List
EmptyThenFull ==
  NewComposite(ListT(ListT(String)),
               <<NewComposite(ListT(String), <<>>),
                 NewComposite(ListT(String), <<NewValue(String, StrDyn("x"))>>)>>)

\* the values handed to the decoder: the worked cases, and every value of
\* at most MaxNodes nodes, kind by kind
DecodeInputs ==
  [n \in 0..MaxNodes |->
     IF n = 0 THEN <<{Person, NullThenUnknown, EmptyThenFull}>> ELSE ValueParts(n)]

\* marshal's arguments: MaxNodes + 1 nodes between the value and the descriptor
MarshalInputs ==
  UNION {UNION {DynOfSize(n) \X TypesOfSize(h) : h \in 1..(MaxNodes + 1 - n)} :
           n \in 1..MaxNodes}
  \cup {<<PairInput, PairType>>, <<OneAttrInput, TwoAttrType>>,
        <<NestedListInput, NestedListType>>}

\* the GoPrimitive a caller decodes into: a fresh one, or one that already
\* holds a value
Receivers ==
  {[Type |-> NilType, Value |-> NilDyn],
   [Type |-> String, Value |-> StrDyn("old")],
   [Type |-> ListT(String), Value |-> NilDyn]}

(* ------------------------------- machine ------------------------------- *)

NoCall == [op |-> "none", value |-> ZeroValue, i |-> NilDyn, p |-> NilType]

NoRet == [st |-> "none", msg |-> <<>>, val |-> ZeroValue, at |-> <<>>]

Init ==
  /\ dt \in Receivers
  /\ pc = "ready"
  /\ call = NoCall
  /\ ret = NoRet

\* err := dt.FromTerraform5Value(value)
FromTerraform5Value ==
  /\ pc = "ready"
  /\ \E n \in DOMAIN DecodeInputs :
       \E k \in DOMAIN DecodeInputs[n] :
         \E value \in DecodeInputs[n][k] :
           \E o \in Decode(value) :
             /\ dt' = Receiver(dt, value, o)
             /\ call' = [NoCall EXCEPT !.op = "FromTerraform5Value",
                                       !.value = value]
             /\ ret' = [NoRet EXCEPT !.st = o.st, !.msg = o.msg]
  /\ pc' = "decoded"

\* v, err := dt.ToTerraform5Value(), on a receiver as built or as decoded into
ToTerraform5Value ==
  /\ pc \in {"ready", "decoded"}
  /\ ret.st # "panic"
  /\ \E o \in Encode(dt) :
       /\ ret' = o
       /\ call' = [call EXCEPT !.op = "ToTerraform5Value"]
  /\ pc' = IF pc = "decoded" /\ ret.st = "ok" THEN "reencoded" ELSE "encoded"
  /\ UNCHANGED dt

\* v, err := marshal(i, p)
Marshal ==
  /\ pc = "ready"
  /\ \E ip \in MarshalInputs :
       \E o \in marshal(ip[1], ip[2]) :
         /\ call' = [NoCall EXCEPT !.op = "marshal", !.i = ip[1], !.p = ip[2]]
         /\ ret' = o
  /\ pc' = "marshalled"
  /\ UNCHANGED dt

Next == FromTerraform5Value \/ ToTerraform5Value \/ Marshal

Spec == Init /\ [][Next]_vars

(* ------------------------------- claims -------------------------------- *)

Children(v) ==
  IF v.typ.kind \in {"Object", "Map"} THEN [j \in DOMAIN v.el |-> v.el[j].val]
  ELSE v.el

RECURSIVE HasUnknown(_)
HasUnknown(v) ==
  \/ v.st = "unknown"
  \/ \E j \in DOMAIN v.el : HasUnknown(Children(v)[j])

RECURSIVE HasEmptyCollection(_)
HasEmptyCollection(v) ==
  \/ v.st = "known" /\ v.typ.kind \in {"List", "Set", "Map"} /\ v.el = <<>>
  \/ \E j \in DOMAIN v.el : HasEmptyCollection(Children(v)[j])

Decoded == pc = "decoded"

Marshalled == pc = "marshalled"

\* C1: round trip. For every Known value v without Unknowns and without an
\* empty List, Set or Map (Null attributes and elements allowed), decoding v
\* succeeds, and encoding the decoded value against v's type succeeds and
\* gives v back.
RoundTrip ==
  (/\ pc \in {"decoded", "reencoded"}
   /\ call.value.st = "known"
   /\ ~HasUnknown(call.value)
   /\ ~HasEmptyCollection(call.value))
  => /\ ret.st = "ok"
     /\ pc = "reencoded" => ret.val = call.value

\* C2: Unknown rejection. FromTerraform5Value returns an error for every
\* Unknown value and for every value holding an Unknown at any depth.
UnknownRejected == (Decoded /\ HasUnknown(call.value)) => ret.st = "error"

\* C3: Null fidelity on encode. Encoding nil against any descriptor, by
\* ToTerraform5Value or by marshal, succeeds and gives the Null value of
\* that descriptor.
NilEncodesToNull ==
  /\ (Marshalled /\ call.i = NilDyn) => (ret.st = "ok" /\ ret.val = Null(call.p))
  /\ (pc = "encoded" /\ dt.Value = NilDyn /\ dt.Type # NilType)
       => (ret.st = "ok" /\ ret.val = Null(dt.Type))

\* C4: empty-collection policy. Decoding a Known empty List or Set succeeds
\* with an empty []interface{}, decoding a Known empty Map succeeds with an
\* empty map[string]interface{}, and neither is the nil that decoding a Null
\* gives.
EmptyCollectionPolicy ==
  LET v == call.value
  IN  /\ (Decoded /\ v.st = "known" /\ v.typ.kind \in {"List", "Set"} /\ v.el = <<>>)
        => /\ ret.st = "ok"
           /\ KindOf(dt.Value) = "slice"
           /\ TypeOf(dt.Value) = <<"slice", "interface">>
           /\ dt.Value.e = <<>>
           /\ dt.Value # NilDyn
      /\ (Decoded /\ v.st = "known" /\ v.typ.kind = "Map" /\ v.el = <<>>)
        => /\ ret.st = "ok"
           /\ KindOf(dt.Value) = "map"
           /\ TypeOf(dt.Value) = <<"map", "interface">>
           /\ dt.Value.e = <<>>
           /\ dt.Value # NilDyn
      /\ (Decoded /\ v.st = "null") => (ret.st = "ok" /\ dt.Value = NilDyn)

\* a Known empty Set of Lists has been decoded
EmptyCollectionDecoded ==
  /\ Decoded
  /\ call.value = NewComposite(SetT(ListT(String)), <<>>)
  /\ ret.st = "ok"
  /\ dt.Type = SetT(ListT(String))

\* C5: shape mismatch. marshal returns an error for a non-nil input that is
\* not a map against Object or Map, that is not a slice against List, Set or
\* Tuple, or that is a slice of another length than the Tuple's element types.
ShapeMismatchIsError ==
  LET i == call.i
      p == call.p
      mismatch ==
        \/ p.kind \in {"Object", "Map"} /\ KindOf(i) # "map"
        \/ p.kind \in {"List", "Set", "Tuple"} /\ KindOf(i) # "slice"
        \/ p.kind = "Tuple" /\ KindOf(i) = "slice" /\ Len(i.e) # Len(p.sub)
  IN  (Marshalled /\ i # NilDyn /\ mismatch) => ret.st = "error"

\* C6: nested propagation. When a nested encode fails, the error of the
\* outermost call names every tuple position, element position and attribute
\* name on the way to the fault; Tuple[String, Object{x: Number}] against
\* ["ok", {"x": "not-a-number"}] gives an error naming position 1 and "x".
NestedErrorIsLocated ==
  /\ (Marshalled /\ ret.st = "error")
       => \A j \in DOMAIN ret.at : ret.at[j] \in Range(ret.msg)
  /\ (Marshalled /\ call.i = PairInput /\ call.p = PairType)
       => (ret.st = "error" /\ {"1", "x"} \subseteq Range(ret.msg))

\* C7: Object encode follows the descriptor. For a map input, marshalObject
\* does not crash, and a successful result has exactly the descriptor's
\* attribute names as keys, each holding the input's entry of that name
\* encoded against the attribute's type (Null when the input has none).
ObjectFollowsDescriptor ==
  LET i == call.i
      p == call.p
      names == {p.sub[j].key : j \in DOMAIN p.sub}
      input(name) ==
        IF \E j \in DOMAIN i.e : i.e[j].key = name
        THEN (CHOOSE en \in Range(i.e) : en.key = name).val
        ELSE NilDyn
  IN  (Marshalled /\ p.kind = "Object" /\ KindOf(i) = "map")
        => /\ ret.st # "panic"
           /\ ret.st = "ok" =>
                /\ {en.key : en \in Range(ret.val.el)} = names
                /\ \A en \in Range(ret.val.el) :
                     en.val \in Successes(marshal(input(en.key),
                                                  AttributeType(p, en.key)))

\* C8: decoding a fully known List or Set succeeds and gives a slice of the
\* same length whose j-th entry is the decode of the j-th element, Null
\* elements and elements of differing emptiness included.
ListDecodesElementwise ==
  LET v == call.value
  IN  (Decoded /\ v.st = "known" /\ v.typ.kind \in {"List", "Set"} /\ ~HasUnknown(v))
        => /\ ret.st = "ok"
           /\ KindOf(dt.Value) = "slice"
           /\ Len(dt.Value.e) = Len(v.el)
           /\ \A j \in DOMAIN v.el : dt.Value.e[j] \in Successes(Decode(v.el[j]))

\* C9: fail-fast without a partial result. A FromTerraform5Value that
\* returns an error leaves the receiver as it was, Type and Value, and a
\* marshal that returns an error returns the zero tftypes.Value with it.
FailsWithoutPartialResult ==
  [][/\ (pc = "ready" /\ pc' = "decoded" /\ ret'.st = "error") => dt' = dt
     /\ (pc' = "marshalled" /\ ret'.st = "error") => ret'.val = ZeroValue]_vars

\* C10: decode is deterministic. Whatever order the entries of a Map or an
\* Object are visited in, every decode of the same value ends the same way:
\* all succeed with the same Go value, or all fail.
DecodeIsDeterministic ==
  Decoded =>
    \A o \in Decode(call.value) :
      IF ret.st = "ok" THEN o.st = "ok" /\ o.val = dt.Value ELSE o.st # "ok"

\* a Map of a Null and a Known entry, either of which may be visited first,
\* has been decoded
MixedMapDecoded ==
  /\ Decoded
  /\ call.value = NewComposite(MapT(String),
                               <<Entry("a", Null(String)),
                                 Entry("b", NewValue(String, StrDyn("x")))>>)
  /\ ret.st = "ok"
  /\ dt.Value = MapDyn(<<"string">>, <<Entry("b", StrDyn("x"))>>)

====
